---- MODULE Spec2Model ----
(***************************************************************************)
(* Query engine of the charity compliance tracker: filterPolicies,         *)
(* sortPolicies and paginatePolicies of lib/policies, applied by request   *)
(* handlers to the record sequence the loader produced.                    *)
(*                                                                         *)
(* Strings are sequences of one-character strings, so that substring       *)
(* search, case folding, code-unit comparison and collation are computed   *)
(* character by character as the JavaScript runtime computes them.         *)
(* An optional value is a set: {} when absent (undefined), {v} when        *)
(* present.                                                                 *)
(***************************************************************************)
EXTENDS Integers, Sequences, FiniteSets, TLC

VARIABLES policies, request, response

vars == <<policies, request, response>>

(***************************************************************************)
(* Bounds of the model.                                                    *)
(***************************************************************************)
\* longest record sequence handed to filterPolicies and sortPolicies
MaxLen == 2
\* most facets present at once in a filter spec
MaxFacets == 2
\* longest record sequence handed to sortPolicies
MaxSortLen == 3
\* longest record sequence handed to paginatePolicies
MaxPageLen == 5
\* largest page size and largest page number requested
MaxPerPage == 3
MaxPage == 4
\* page numbers below 1 requested: 0 down to -(LowPages - 1)
LowPages == 2
\* longest record sequence handed to the sanctions lookup, the long lists apart
MaxSanctionsLen == 2
\* the long lists hold up to this many records more than the result cap
MaxOverCap == 2
\* longest record sequence handed to the analytics
MaxAnalyticsLen == 2
\* the risky lists hold up to this many records more than high_risk_recent
MaxOverHighRisk == 2
\* longest text of a numeric column of the data file
MaxNumberLen == 3
\* requests in flight at once over the shared record sequence
MaxClients == 2

(***************************************************************************)
(* Optional values and strings.                                            *)
(***************************************************************************)
None == {}

Some(v) == {v}

Value(opt) == CHOOSE v \in opt : TRUE

\* UTF-16 code unit of a character: the order of <, <=, >=, > on strings
CodeUnit(c) ==
    CASE c = "-" -> 45
      [] c = "0" -> 48
      [] c = "1" -> 49
      [] c = "2" -> 50
      [] c = "3" -> 51
      [] c = "4" -> 52
      [] c = "5" -> 53
      [] c = "6" -> 54
      [] c = "7" -> 55
      [] c = "8" -> 56
      [] c = "9" -> 57
      [] c = "A" -> 65
      [] c = "B" -> 66
      [] c = "a" -> 97
      [] c = "b" -> 98

\* String.prototype.toLowerCase, one character
LowerChar(c) ==
    CASE c = "A" -> "a"
      [] c = "B" -> "b"
      [] c = "S" -> "s"
      [] OTHER -> c

\* String.prototype.toLowerCase
toLowerCase(s) == [i \in 1..Len(s) |-> LowerChar(s[i])]

\* whether needle occurs in hay at 1-based position k
MatchesAt(hay, needle, k) ==
    /\ k + Len(needle) - 1 <= Len(hay)
    /\ \A i \in 1..Len(needle) : hay[k + i - 1] = needle[i]

\* String.prototype.includes: scan the start positions from the left
RECURSIVE ScanFrom(_, _, _)
ScanFrom(hay, needle, k) ==
    IF k + Len(needle) - 1 > Len(hay) THEN FALSE
    ELSE IF MatchesAt(hay, needle, k) THEN TRUE
    ELSE ScanFrom(hay, needle, k + 1)

includes(hay, needle) == ScanFrom(hay, needle, 1)

\* the abstract relational comparison a < b of two strings: by code units,
\* a proper prefix being the smaller
RECURSIVE StrLess(_, _)
StrLess(a, b) ==
    IF b = <<>> THEN FALSE
    ELSE IF a = <<>> THEN TRUE
    ELSE IF CodeUnit(Head(a)) # CodeUnit(Head(b))
         THEN CodeUnit(Head(a)) < CodeUnit(Head(b))
    ELSE StrLess(Tail(a), Tail(b))

\* a >= b on strings
StrGeq(a, b) == ~StrLess(a, b)

\* a <= b on strings
StrLeq(a, b) == ~StrLess(b, a)

\* truthiness of an optional string: undefined and the empty string are falsy
Truthy(opt) == opt # None /\ opt # Some(<<>>)

\* the same for a string the model keeps whole (an enumeration value, an id)
TruthyAtom(opt) == opt # None /\ opt # Some("")

(***************************************************************************)
(* The record model (CharityPolicy) and the enumerations.                  *)
(***************************************************************************)
Regulators == {"CC", "ICO", "OFSI", "HSE", "HMRC", "FR", "OSCR", "CCNI", "ASA"}

ComplianceDomains ==
    {"governance", "safeguarding", "gdpr", "health_safety",
     "financial_reporting", "risk_management", "anti_fraud", "sanctions"}

DocumentTypes ==
    {"guidance", "case", "enforcement", "regulation", "alert", "sanction"}

RiskLevels == {"low", "medium", "high", "critical"}

\* ISO-8601 calendar dates, as the loader reads them from the CSV
D20231231 == <<"2","0","2","3","-","1","2","-","3","1">>

D20240115 == <<"2","0","2","4","-","0","1","-","1","5">>

D20240301 == <<"2","0","2","4","-","0","3","-","0","1">>

\* a record as getAllPolicies builds it: required fields, then the optional
\* ones, absent when the column is empty; the id is opaque, a tuple of what
\* tells the record apart
CharityPolicy(id, title, summary, published, updated, regulator, domain, doctype, charity_name, keywords, case_id, risk) ==
    [id |-> id, title |-> title, summary |-> summary,
     published_date |-> published, last_updated |-> updated,
     regulator |-> regulator, domain |-> domain, document_type |-> doctype,
     charity_name |-> charity_name, keywords |-> keywords,
     case_id |-> case_id, risk_level |-> risk,
     sanctions_regime |-> None, designated_by |-> None,
     source_url |-> "https://www.gov.uk/"]

\* all sequences over S of length at most n
SeqsUpTo(S, n) == UNION {[1..k -> S] : k \in 0..n}

(***************************************************************************)
(* PolicyFilters.  A multi-value facet holds one value or an array.        *)
(***************************************************************************)
One(v) == [isArray |-> FALSE, items |-> <<v>>]

Many(vs) == [isArray |-> TRUE, items |-> vs]

NoFilters ==
    [search |-> None, regulator |-> None, domain |-> None,
     document_type |-> None, date_from |-> None, date_to |-> None,
     has_case_id |-> None, risk_level |-> None]

FacetNames ==
    {"search", "regulator", "domain", "document_type", "date_from",
     "date_to", "has_case_id", "risk_level"}

(***************************************************************************)
(* filterPolicies.                                                         *)
(***************************************************************************)
\* Array.prototype.includes
ArrayIncludes(arr, v) == \E i \in 1..Len(arr) : arr[i] = v

\* x.toLowerCase().includes(q) on a field that may be undefined: a method
\* call on undefined throws a TypeError
LowerIncludes(opt, q) ==
    IF opt = None THEN "throw"
    ELSE IF includes(toLowerCase(Value(opt)), q) THEN "true" ELSE "false"

\* the clause without its guard: the method is called on an absent name
CharityNameClauseUnguarded(p, searchLower) ==
    LowerIncludes(p.charity_name, searchLower)

\* p.charity_name && p.charity_name.toLowerCase().includes(searchLower)
CharityNameClause(p, searchLower) ==
    IF ~Truthy(p.charity_name) THEN "false"
    ELSE LowerIncludes(p.charity_name, searchLower)

\* p.keywords && p.keywords.some(k => k.toLowerCase().includes(searchLower))
KeywordsClause(p, searchLower) ==
    IF p.keywords = None THEN "false"
    ELSE IF \E i \in 1..Len(Value(p.keywords)) :
                includes(toLowerCase(Value(p.keywords)[i]), searchLower)
         THEN "true" ELSE "false"

\* a predicate that leaves the keywords out
SearchPredicateNoKeywords(p, searchLower) ==
    IF includes(toLowerCase(p.title), searchLower) THEN "true"
    ELSE IF includes(toLowerCase(p.summary), searchLower) THEN "true"
    ELSE CharityNameClause(p, searchLower)

\* the predicate of the text search, evaluated left to right with || :
\* "true", "false", or "throw" when a clause throws before one is true
SearchPredicate(p, searchLower) ==
    IF includes(toLowerCase(p.title), searchLower) THEN "true"
    ELSE IF includes(toLowerCase(p.summary), searchLower) THEN "true"
    ELSE IF CharityNameClause(p, searchLower) # "false"
         THEN CharityNameClause(p, searchLower)
    ELSE KeywordsClause(p, searchLower)

\* whether the text search throws on some record of result
SearchThrows(result, filters) ==
    /\ Truthy(filters.search)
    /\ \E i \in 1..Len(result) :
           SearchPredicate(result[i], toLowerCase(Value(filters.search))) = "throw"

\* if (filters.search) result = result.filter(...)
SearchStep(result, filters) ==
    IF Truthy(filters.search)
    THEN SelectSeq(result, LAMBDA p :
             SearchPredicate(p, toLowerCase(Value(filters.search))) = "true")
    ELSE result

\* Array.isArray(f) ? f : [f]
AsArray(facet) == facet.items

\* a regulator facet compared as one value, the array form never matching
RegulatorStepNoArray(result, filters) ==
    IF filters.regulator # None
    THEN SelectSeq(result, LAMBDA p :
             /\ ~Value(filters.regulator).isArray
             /\ Value(filters.regulator).items[1] = p.regulator)
    ELSE result

\* if (filters.regulator) result = result.filter(p => regulators.includes(p.regulator))
RegulatorStep(result, filters) ==
    IF filters.regulator # None
    THEN SelectSeq(result, LAMBDA p :
             ArrayIncludes(AsArray(Value(filters.regulator)), p.regulator))
    ELSE result

DomainStep(result, filters) ==
    IF filters.domain # None
    THEN SelectSeq(result, LAMBDA p :
             ArrayIncludes(AsArray(Value(filters.domain)), p.domain))
    ELSE result

DocumentTypeStep(result, filters) ==
    IF filters.document_type # None
    THEN SelectSeq(result, LAMBDA p :
             ArrayIncludes(AsArray(Value(filters.document_type)), p.document_type))
    ELSE result

\* a lower bound that leaves out the records dated on the bound
DateFromStepExclusive(result, filters) ==
    IF Truthy(filters.date_from)
    THEN SelectSeq(result, LAMBDA p :
             StrLess(Value(filters.date_from), p.published_date))
    ELSE result

\* if (filters.date_from) result = result.filter(p => p.published_date >= filters.date_from)
DateFromStep(result, filters) ==
    IF Truthy(filters.date_from)
    THEN SelectSeq(result, LAMBDA p :
             StrGeq(p.published_date, Value(filters.date_from)))
    ELSE result

\* if (filters.date_to) result = result.filter(p => p.published_date <= filters.date_to)
DateToStep(result, filters) ==
    IF Truthy(filters.date_to)
    THEN SelectSeq(result, LAMBDA p :
             StrLeq(p.published_date, Value(filters.date_to)))
    ELSE result

\* a flag that looks at the case_id field alone
CasesOnlyStepFieldOnly(result, filters) ==
    IF filters.has_case_id = Some(TRUE)
    THEN SelectSeq(result, LAMBDA p : TruthyAtom(p.case_id))
    ELSE result

\* if (filters.has_case_id) result = result.filter(p => p.case_id || case || enforcement)
CasesOnlyStep(result, filters) ==
    IF filters.has_case_id = Some(TRUE)
    THEN SelectSeq(result, LAMBDA p :
             \/ TruthyAtom(p.case_id)
             \/ p.document_type = "case"
             \/ p.document_type = "enforcement")
    ELSE result

\* a removal loop that advances its index past the element that slid into
\* the place of a removed one
RECURSIVE SpliceLoop(_, _, _)
SpliceLoop(result, level, i) ==
    IF i > Len(result) THEN result
    ELSE IF result[i].risk_level # level
         THEN SpliceLoop(SubSeq(result, 1, i - 1) \o SubSeq(result, i + 1, Len(result)),
                         level, i + 1)
    ELSE SpliceLoop(result, level, i + 1)

RiskLevelStepSplicing(result, filters) ==
    IF TruthyAtom(filters.risk_level)
    THEN SpliceLoop(result, filters.risk_level, 1)
    ELSE result

\* if (filters.risk_level) result = result.filter(p => p.risk_level === filters.risk_level)
RiskLevelStep(result, filters) ==
    IF TruthyAtom(filters.risk_level)
    THEN SelectSeq(result, LAMBDA p : p.risk_level = filters.risk_level)
    ELSE result

\* a chain whose last step filters the input again instead of the result
filterPoliciesRestarting(ps, filters) ==
    IF SearchThrows(ps, filters) THEN [threw |-> TRUE, value |-> <<>>]
    ELSE [threw |-> FALSE,
          value |-> IF TruthyAtom(filters.risk_level)
                    THEN RiskLevelStep(ps, filters)
                    ELSE CasesOnlyStep(DateToStep(DateFromStep(
                        DocumentTypeStep(DomainStep(RegulatorStep(
                            SearchStep(ps, filters), filters), filters), filters),
                        filters), filters), filters)]

\* the returned array; threw is set when the call throws instead
filterPolicies(ps, filters) ==
    IF SearchThrows(ps, filters) THEN [threw |-> TRUE, value |-> <<>>]
    ELSE [threw |-> FALSE,
          value |-> RiskLevelStep(CasesOnlyStep(DateToStep(DateFromStep(
                        DocumentTypeStep(DomainStep(RegulatorStep(
                            SearchStep(ps, filters), filters), filters), filters),
                        filters), filters), filters), filters)]

(***************************************************************************)
(* sortPolicies.                                                           *)
(***************************************************************************)
\* String.prototype.localeCompare collates in levels.  Primary weight of a
\* character: punctuation before digits before letters, a letter's case
\* ignored.
PrimaryWeight(c) ==
    CASE c = "-" -> 1
      [] c \in {"0", "1", "2", "3", "4", "5"} -> CodeUnit(c) - 38
      [] c \in {"a", "A"} -> 20
      [] c \in {"b", "B"} -> 21

\* tertiary weight: a lower-case letter before its upper-case form
TertiaryWeight(c) == IF c \in {"A", "B"} THEN 1 ELSE 0

\* -1, 0 or 1 as x comes before, with or after y, element by element, a
\* proper prefix first
RECURSIVE CompareWeights(_, _)
CompareWeights(x, y) ==
    IF x = <<>> /\ y = <<>> THEN 0
    ELSE IF x = <<>> THEN -1
    ELSE IF y = <<>> THEN 1
    ELSE IF Head(x) < Head(y) THEN -1
    ELSE IF Head(x) > Head(y) THEN 1
    ELSE CompareWeights(Tail(x), Tail(y))

\* a.localeCompare(b): the primary weights decide, then the tertiary ones
localeCompare(a, b) ==
    LET primary == CompareWeights([i \in 1..Len(a) |-> PrimaryWeight(a[i])],
                                  [i \in 1..Len(b) |-> PrimaryWeight(b[i])])
    IN  IF primary # 0 THEN primary
        ELSE CompareWeights([i \in 1..Len(a) |-> TertiaryWeight(a[i])],
                            [i \in 1..Len(b) |-> TertiaryWeight(b[i])])

\* a comparator that returns the ascending comparison whatever the order
comparatorIgnoringOrder(a, b, sortBy, order) ==
    IF sortBy = "title" THEN localeCompare(a.title, b.title)
    ELSE localeCompare(a[sortBy], b[sortBy])

\* the comparator handed to sort
comparator(a, b, sortBy, order) ==
    LET comparison == IF sortBy = "title" THEN localeCompare(a.title, b.title)
                      ELSE localeCompare(a[sortBy], b[sortBy])
    IN  IF order = "desc" THEN -comparison ELSE comparison

\* Array.prototype.sort is stable: x is placed behind every element that
\* does not compare greater than it
RECURSIVE InsertBehindEquals(_, _, _, _)
InsertBehindEquals(sorted, x, sortBy, order) ==
    IF sorted = <<>> THEN <<x>>
    ELSE IF comparator(Head(sorted), x, sortBy, order) > 0 THEN <<x>> \o sorted
    ELSE <<Head(sorted)>> \o InsertBehindEquals(Tail(sorted), x, sortBy, order)

RECURSIVE SortPrefix(_, _, _, _)
SortPrefix(arr, n, sortBy, order) ==
    IF n = 0 THEN <<>>
    ELSE InsertBehindEquals(SortPrefix(arr, n - 1, sortBy, order), arr[n],
                            sortBy, order)

\* arr.sort(comparator)
ArraySort(arr, sortBy, order) == SortPrefix(arr, Len(arr), sortBy, order)

\* Array.prototype.reverse
Reverse(arr) == [i \in 1..Len(arr) |-> arr[Len(arr) + 1 - i]]

\* policies.sort(...): the caller's array is sorted in place
sortPoliciesInPlace(ps, sortBy, order) ==
    [array |-> ArraySort(ps, sortBy, order), value |-> ArraySort(ps, sortBy, order)]

\* descending order obtained by reversing the ascending sort
sortPoliciesByReversal(ps, sortBy, order) ==
    [array |-> ps,
     value |-> IF order = "desc" THEN Reverse(ArraySort(ps, sortBy, "asc"))
               ELSE ArraySort(ps, sortBy, order)]

\* [...policies].sort(comparator): array is the caller's array after the
\* call, value the returned one
sortPolicies(ps, sortBy, order) ==
    [array |-> ps, value |-> ArraySort(ps, sortBy, order)]

SortFields == {"published_date", "last_updated", "title"}

SortOrders == {"asc", "desc"}

(***************************************************************************)
(* paginatePolicies.                                                       *)
(***************************************************************************)
\* Math.ceil(total / perPage), perPage >= 1
Ceil(total, perPage) ==
    IF total % perPage = 0 THEN total \div perPage ELSE total \div perPage + 1

\* a relative index of Array.prototype.slice: a negative one counts from the end
RelativeIndex(i, len) ==
    IF i < 0 THEN (IF len + i > 0 THEN len + i ELSE 0)
    ELSE (IF i < len THEN i ELSE len)

\* arr.slice(start, end), 0-based, end excluded
ArraySlice(arr, start, end) ==
    SubSeq(arr, RelativeIndex(start, Len(arr)) + 1, RelativeIndex(end, Len(arr)))

\* a page count rounded down
paginatePoliciesFloor(ps, page, perPage) ==
    [data |-> ArraySlice(ps, (page - 1) * perPage, (page - 1) * perPage + perPage),
     total |-> Len(ps), page |-> page, totalPages |-> Len(ps) \div perPage]

\* a start offset that takes the page number for a 0-based one
paginatePoliciesPageAsOffset(ps, page, perPage) ==
    [data |-> ArraySlice(ps, page * perPage, page * perPage + perPage),
     total |-> Len(ps), page |-> page, totalPages |-> Ceil(Len(ps), perPage)]

\* a total that counts the records of the page
paginatePoliciesTotalOfPage(ps, page, perPage) ==
    LET data == ArraySlice(ps, (page - 1) * perPage, (page - 1) * perPage + perPage)
    IN  [data |-> data, total |-> Len(data), page |-> page,
         totalPages |-> Ceil(Len(data), perPage)]

\* the page: data is policies.slice(start, start + perPage)
paginatePolicies(ps, page, perPage) ==
    LET total == Len(ps)
        totalPages == Ceil(total, perPage)
        start == (page - 1) * perPage
        data == ArraySlice(ps, start, start + perPage)
    IN  [data |-> data, total |-> total, page |-> page, totalPages |-> totalPages]

(***************************************************************************)
(* The sanctions lookup: GET of app/api/sanctions.                         *)
(***************************************************************************)
\* shortest name that is searched for
MinNameLength == 2

\* most hits a response lists
ResultCap == 50

\* the label the response strips from a title
SanctionsLabel == <<"S","a","n","c","t","i","o","n","s",":"," ">>

\* 1-based position of the first occurrence of needle in hay at or after k,
\* 0 when there is none
RECURSIVE FirstIndexFrom(_, _, _)
FirstIndexFrom(hay, needle, k) ==
    IF k + Len(needle) - 1 > Len(hay) THEN 0
    ELSE IF MatchesAt(hay, needle, k) THEN k
    ELSE FirstIndexFrom(hay, needle, k + 1)

\* s.replace(pattern, '') with a string pattern: the first occurrence of the
\* pattern is removed, wherever it is
StringRemoveFirst(s, pattern) ==
    LET k == FirstIndexFrom(s, pattern, 1)
    IN  IF k = 0 THEN s
        ELSE SubSeq(s, 1, k - 1) \o SubSeq(s, k + Len(pattern), Len(s))

\* !name || name.length < 2
NameTooShort(name) == ~Truthy(name) \/ Len(Value(name)) < MinNameLength

\* allPolicies.filter(p => p.domain === 'sanctions')
SanctionsEntries(ps) == SelectSeq(ps, LAMBDA p : p.domain = "sanctions")

\* a name search that also reads charity_name and keywords
NameMatchesAllFields(sanctions, name) ==
    SelectSeq(sanctions, LAMBDA s :
        SearchPredicate(s, toLowerCase(Value(name))) = "true")

\* sanctions.filter(s => title contains nameLower || (s.summary && summary contains nameLower))
NameMatches(sanctions, name) ==
    SelectSeq(sanctions, LAMBDA s :
        \/ includes(toLowerCase(s.title), toLowerCase(Value(name)))
        \/ s.summary # <<>>
           /\ includes(toLowerCase(s.summary), toLowerCase(Value(name))))

\* a regime compared without folding the case
RegimeStepCaseSensitive(matches, regime) ==
    IF Truthy(regime)
    THEN SelectSeq(matches, LAMBDA s :
             /\ s.sanctions_regime # None
             /\ includes(Value(s.sanctions_regime), Value(regime)))
    ELSE matches

\* if (regime) matches = matches.filter(s => s.sanctions_regime?.toLowerCase().includes(regime.toLowerCase()))
RegimeStep(matches, regime) ==
    IF Truthy(regime)
    THEN SelectSeq(matches, LAMBDA s :
             /\ s.sanctions_regime # None
             /\ includes(toLowerCase(Value(s.sanctions_regime)),
                         toLowerCase(Value(regime))))
    ELSE matches

\* the public shape of a match
SanctionHit(m) ==
    [id |-> m.id, name |-> StringRemoveFirst(m.title, SanctionsLabel),
     regime |-> m.sanctions_regime, designated_by |-> m.designated_by,
     listed_date |-> m.published_date, source_url |-> m.source_url]

\* the body of a response; a field the body does not carry, or carries as
\* null, is None
SanctionsBody(query, count, data, warning, message) ==
    [success |-> TRUE, query |-> query, count |-> count, data |-> data,
     warning |-> warning, message |-> message]

\* a response whose count is the length of the capped list
SanctionsGETCountOfList(ps, name, regime) ==
    IF NameTooShort(name)
    THEN [loaded |-> FALSE,
          body |-> SanctionsBody(None, None, <<>>, None,
                                 Some("Provide at least 2 characters to search"))]
    ELSE LET matches == RegimeStep(NameMatches(SanctionsEntries(ps), name), regime)
             results == [i \in 1..Len(matches) |-> SanctionHit(matches[i])]
         IN  [loaded |-> TRUE,
              body |-> SanctionsBody(name, Some(Len(ArraySlice(results, 0, ResultCap))),
                           ArraySlice(results, 0, ResultCap),
                           IF Len(results) = 0 THEN None
                           ELSE Some("This is for information only. Always verify against the official OFSI list."),
                           None)]

\* a response that warns whatever was found
SanctionsGETAlwaysWarns(ps, name, regime) ==
    IF NameTooShort(name)
    THEN [loaded |-> FALSE,
          body |-> SanctionsBody(None, None, <<>>, None,
                                 Some("Provide at least 2 characters to search"))]
    ELSE LET matches == RegimeStep(NameMatches(SanctionsEntries(ps), name), regime)
             results == [i \in 1..Len(matches) |-> SanctionHit(matches[i])]
         IN  [loaded |-> TRUE,
              body |-> SanctionsBody(name, Some(Len(results)),
                           ArraySlice(results, 0, ResultCap),
                           Some("This is for information only. Always verify against the official OFSI list."),
                           None)]

\* GET: loaded tells whether getAllPolicies was called
SanctionsGET(ps, name, regime) ==
    IF NameTooShort(name)
    THEN [loaded |-> FALSE,
          body |-> SanctionsBody(None, None, <<>>, None,
                                 Some("Provide at least 2 characters to search"))]
    ELSE LET matches == RegimeStep(NameMatches(SanctionsEntries(ps), name), regime)
             results == [i \in 1..Len(matches) |-> SanctionHit(matches[i])]
         IN  [loaded |-> TRUE,
              body |-> SanctionsBody(name, Some(Len(results)),
                           ArraySlice(results, 0, ResultCap),
                           IF Len(results) = 0 THEN None
                           ELSE Some("This is for information only. Always verify against the official OFSI list."),
                           None)]

(***************************************************************************)
(* The analytics: GET of app/api/analytics.                                *)
(***************************************************************************)
\* the keys byRegulator is created with
SeededRegulators == {"CC", "ICO", "OFSI", "HSE", "HMRC", "FR"}

\* the keys byDomain is created with
SeededDomains ==
    {"governance", "safeguarding", "gdpr", "health_safety",
     "financial_reporting", "risk_management", "anti_fraud", "sanctions"}

\* the keys byType is created with
SeededTypes == {"guidance", "case", "enforcement", "regulation", "alert", "sanction"}

\* months the timeline covers
TimelineMonths == 12

\* most records high_risk_recent lists
HighRiskCap == 10

\* characters of a month key
MonthKeyLength == 7

\* policies.forEach: if (key in counts) counts[key]++, for the key of each
\* record in turn
RECURSIVE Tally(_, _)
Tally(counts, keys) ==
    IF keys = <<>> THEN counts
    ELSE Tally(IF Head(keys) \in DOMAIN counts
               THEN [counts EXCEPT ![Head(keys)] = @ + 1]
               ELSE counts,
               Tail(keys))

byRegulator(ps) ==
    Tally([r \in SeededRegulators |-> 0], [i \in 1..Len(ps) |-> ps[i].regulator])

\* a map with an entry only for the domains that have a record
byDomainUnseeded(ps) ==
    Tally([d \in {ps[i].domain : i \in 1..Len(ps)} |-> 0],
          [i \in 1..Len(ps) |-> ps[i].domain])

byDomain(ps) ==
    Tally([d \in SeededDomains |-> 0], [i \in 1..Len(ps) |-> ps[i].domain])

byType(ps) ==
    Tally([t \in SeededTypes |-> 0], [i \in 1..Len(ps) |-> ps[i].document_type])

Digit(n) == <<"0", "1", "2", "3", "4", "5", "6", "7", "8", "9">>[n + 1]

\* toISOString().slice(0, 7) of a date in the given year and month (1..12)
MonthKey(year, month) ==
    <<Digit(year \div 1000), Digit((year \div 100) % 10), Digit((year \div 10) % 10),
      Digit(year % 10), "-", Digit(month \div 10), Digit(month % 10)>>

\* new Date(year, month - i, 1).toISOString().slice(0, 7): the constructor
\* takes local time (month 0-based, normalised into the years around), and
\* toISOString prints UTC; local midnight of the 1st is a day of the month
\* before in UTC where local time is ahead of UTC
TimelineKey(now, i) ==
    LET local == now.year * 12 + now.month - i
        utc == IF now.utcOffset > 0 THEN local - 1 ELSE local
    IN  MonthKey(utc \div 12, (utc % 12) + 1)

\* for (let i = 11; i >= 0; i--) timeline[key] = 0: the keys in the order
\* they are created, a key that is there already keeping its place
RECURSIVE TimelineSeed(_, _, _)
TimelineSeed(timeline, now, i) ==
    IF i < 0 THEN timeline
    ELSE TimelineSeed(
             IF \E k \in 1..Len(timeline) : timeline[k].month = TimelineKey(now, i)
             THEN timeline
             ELSE Append(timeline, [month |-> TimelineKey(now, i), count |-> 0]),
             now, i - 1)

\* if (month in timeline) timeline[month]++, for the month of each record
RECURSIVE TimelineTally(_, _)
TimelineTally(timeline, ps) ==
    IF ps = <<>> THEN timeline
    ELSE TimelineTally(
             [k \in 1..Len(timeline) |->
                 IF timeline[k].month = ArraySlice(Head(ps).published_date, 0, MonthKeyLength)
                 THEN [timeline[k] EXCEPT !.count = @ + 1]
                 ELSE timeline[k]],
             Tail(ps))

\* Object.entries(timeline).map(([month, count]) => ({ month, count }))
timeline(ps, now) ==
    TimelineTally(TimelineSeed(<<>>, now, TimelineMonths - 1), ps)

\* .sort((a, b) => b.published_date.localeCompare(a.published_date)), stable
RECURSIVE InsertByDateDescending(_, _)
InsertByDateDescending(sorted, x) ==
    IF sorted = <<>> THEN <<x>>
    ELSE IF localeCompare(x.published_date, Head(sorted).published_date) > 0
         THEN <<x>> \o sorted
    ELSE <<Head(sorted)>> \o InsertByDateDescending(Tail(sorted), x)

RECURSIVE SortByDateDescending(_, _)
SortByDateDescending(arr, n) ==
    IF n = 0 THEN <<>>
    ELSE InsertByDateDescending(SortByDateDescending(arr, n - 1), arr[n])

\* the first ten high and critical records, then sorted
highRiskCapBeforeSort(ps) ==
    LET risky == ArraySlice(SelectSeq(ps, LAMBDA p :
                     p.risk_level = Some("high") \/ p.risk_level = Some("critical")),
                     0, HighRiskCap)
    IN  SortByDateDescending(risky, Len(risky))

\* the high and critical records, latest first, ten at most
highRisk(ps) ==
    LET risky == SelectSeq(ps, LAMBDA p :
                     p.risk_level = Some("high") \/ p.risk_level = Some("critical"))
    IN  ArraySlice(SortByDateDescending(risky, Len(risky)), 0, HighRiskCap)

\* the shape of a record in high_risk_recent
HighRiskItem(p) ==
    [id |-> p.id, title |-> p.title, domain |-> p.domain,
     risk_level |-> p.risk_level, date |-> p.published_date]

DigitValue(c) == CodeUnit(c) - 48

\* days from 1970-01-01 to a day of the proleptic Gregorian calendar
DaysFromCivil(year, month, day) ==
    LET y == IF month <= 2 THEN year - 1 ELSE year
        era == y \div 400
        yoe == y - era * 400
        mp == (month + 9) % 12
        doy == (153 * mp + 2) \div 5 + day - 1
        doe == yoe * 365 + yoe \div 4 - yoe \div 100 + doy
    IN  era * 146097 + doe - 719468

\* new Date(s).getTime() of a date YYYY-MM-DD, which is read as UTC midnight:
\* the result counted in days, the milliseconds being 86400000 times as many
getTime(s) ==
    DaysFromCivil(
        DigitValue(s[1]) * 1000 + DigitValue(s[2]) * 100 + DigitValue(s[3]) * 10 + DigitValue(s[4]),
        DigitValue(s[6]) * 10 + DigitValue(s[7]),
        DigitValue(s[9]) * 10 + DigitValue(s[10]))

\* Math.max(...numbers), numbers not empty
RECURSIVE MathMax(_)
MathMax(numbers) ==
    IF Len(numbers) = 1 THEN numbers[1]
    ELSE IF Head(numbers) > MathMax(Tail(numbers)) THEN Head(numbers)
    ELSE MathMax(Tail(numbers))

\* the latest published_date in place of the latest last_updated
lastUpdatedFromPublished(ps) ==
    IF Len(ps) > 0
    THEN Some(MathMax([i \in 1..Len(ps) |-> getTime(ps[i].published_date)]))
    ELSE None

\* summary.last_updated: a number, or null (None) for no records
lastUpdated(ps) ==
    IF Len(ps) > 0
    THEN Some(MathMax([i \in 1..Len(ps) |-> getTime(ps[i].last_updated)]))
    ELSE None

\* GET: the body of the response
AnalyticsGET(ps, now) ==
    [success |-> TRUE,
     summary |-> [total |-> Len(ps), last_updated |-> lastUpdated(ps)],
     by_regulator |-> byRegulator(ps),
     by_domain |-> byDomain(ps),
     by_type |-> byType(ps),
     timeline |-> timeline(ps, now),
     high_risk_recent |-> [i \in 1..Len(highRisk(ps)) |-> HighRiskItem(highRisk(ps)[i])]]

(***************************************************************************)
(* getAllPolicies: the rows of the data file made into records.            *)
(***************************************************************************)
DecimalDigits == {"0", "1", "2", "3", "4", "5", "6", "7", "8", "9"}

\* the number of decimal digits of s from position pos on
RECURSIVE DigitRun(_, _)
DigitRun(s, pos) ==
    IF pos > Len(s) \/ s[pos] \notin DecimalDigits THEN 0
    ELSE 1 + DigitRun(s, pos + 1)

\* the number a sequence of decimal digits writes
RECURSIVE DigitsValue(_)
DigitsValue(digits) ==
    IF digits = <<>> THEN 0
    ELSE DigitsValue(SubSeq(digits, 1, Len(digits) - 1)) * 10
         + DigitValue(digits[Len(digits)])

\* fraction digits without the zeros at their end
RECURSIVE StripZeros(_)
StripZeros(digits) ==
    IF digits # <<>> /\ digits[Len(digits)] = "0"
    THEN StripZeros(SubSeq(digits, 1, Len(digits) - 1))
    ELSE digits

\* a number value: mantissa / 10^scale, or NaN
NaN == [isNaN |-> TRUE, mantissa |-> 0, scale |-> 0]

Number(mantissa, scale) == [isNaN |-> FALSE, mantissa |-> mantissa, scale |-> scale]

\* parseFloat(s) of a trimmed string without exponent: the longest prefix
\* that is a decimal literal (a sign, digits, a point, digits), whatever
\* follows it; NaN when there is none.  -0 is kept as 0
parseFloat(s) ==
    LET start == IF s # <<>> /\ s[1] \in {"-", "+"} THEN 2 ELSE 1
        units == DigitRun(s, start)
        dotted == start + units <= Len(s) /\ s[start + units] = "."
        decimals == IF dotted THEN DigitRun(s, start + units + 1) ELSE 0
        fraction == StripZeros(SubSeq(s, start + units + 1, start + units + decimals))
        mantissa == DigitsValue(SubSeq(s, start, start + units - 1) \o fraction)
    IN  IF units = 0 /\ decimals = 0 THEN Some(NaN)
        ELSE Some(Number(IF start = 2 /\ s[1] = "-" THEN -mantissa ELSE mantissa,
                         Len(fraction)))

\* row.x || undefined
OrUndefined(text) == IF text = <<>> THEN None ELSE Some(text)

\* the same for a column the model keeps whole
OrUndefinedAtom(text) == IF text = "" THEN None ELSE Some(text)

\* s.split(separator), the separator one character
RECURSIVE StringSplit(_, _)
StringSplit(s, separator) ==
    IF \A k \in 1..Len(s) : s[k] # separator THEN <<s>>
    ELSE LET k == CHOOSE j \in 1..Len(s) :
                      s[j] = separator /\ \A i \in 1..(j - 1) : s[i] # separator
         IN  <<SubSeq(s, 1, k - 1)>> \o StringSplit(SubSeq(s, k + 1, Len(s)), separator)

\* row.x ? row.x.split('|') : undefined
SplitOrUndefined(text) ==
    IF text = <<>> THEN None ELSE Some(StringSplit(text, "|"))

\* the fields of a record that CharityPolicy leaves at their defaults
RowExtras(row, fine_amount, cc_latest_income) ==
    [charity_number |-> OrUndefinedAtom(row.charity_number),
     charity_income_band |-> OrUndefinedAtom(row.charity_income_band),
     case_status |-> OrUndefinedAtom(row.case_status),
     outcome |-> OrUndefined(row.outcome),
     issues_identified |-> SplitOrUndefined(row.issues_identified),
     fine_amount |-> fine_amount,
     cc_registered_number |-> OrUndefinedAtom(row.cc_registered_number),
     cc_suffix |-> OrUndefinedAtom(row.cc_suffix),
     cc_status |-> OrUndefinedAtom(row.cc_status),
     cc_latest_income |-> cc_latest_income,
     cc_governing_document |-> OrUndefinedAtom(row.cc_governing_document),
     cc_primary_region |-> OrUndefinedAtom(row.cc_primary_region)]

\* the fields of a record that CharityPolicy holds
RowPolicy(row) ==
    [CharityPolicy(row.id, row.title, row.summary, row.published_date,
                   row.last_updated, row.regulator, row.domain, row.document_type,
                   OrUndefined(row.charity_name), SplitOrUndefined(row.keywords),
                   OrUndefinedAtom(row.case_id), OrUndefinedAtom(row.risk_level))
        EXCEPT !.source_url = row.source_url,
               !.sanctions_regime = OrUndefined(row.sanctions_regime),
               !.designated_by = OrUndefinedAtom(row.designated_by)]

\* getAllPolicies(): file is None when the data file does not exist, and
\* else the rows that parse(fileContent, { columns, skip_empty_lines, trim })
\* returns, a column's text trimmed
getAllPolicies(file) ==
    IF file = None THEN <<>>
    ELSE [i \in 1..Len(Value(file)) |->
             RowPolicy(Value(file)[i])
             @@ RowExtras(Value(file)[i],
                    IF Value(file)[i].fine_amount # <<>>
                    THEN parseFloat(Value(file)[i].fine_amount) ELSE None,
                    IF Value(file)[i].cc_latest_income # <<>>
                    THEN parseFloat(Value(file)[i].cc_latest_income) ELSE None)]

(***************************************************************************)
(* The charity lookup: GET of app/api/charity/[regNo].                     *)
(***************************************************************************)
\* charityPolicies[0].charity_number || charityPolicies[0].cc_registered_number
CharityNumberOf(p) ==
    IF TruthyAtom(p.charity_number) THEN p.charity_number ELSE p.cc_registered_number

\* GET: the body of the response; charity is None for null
CharityGET(ps, regNo) ==
    LET charityPolicies ==
            SelectSeq(ps, LAMBDA p :
                p.charity_number = Some(regNo) \/ p.cc_registered_number = Some(regNo))
    IN  [success |-> TRUE,
         charity |-> IF Len(charityPolicies) > 0
                     THEN Some([charity_number |-> CharityNumberOf(charityPolicies[1]),
                                charity_name |-> charityPolicies[1].charity_name,
                                cc_status |-> charityPolicies[1].cc_status,
                                cc_latest_income |-> charityPolicies[1].cc_latest_income,
                                cc_primary_region |-> charityPolicies[1].cc_primary_region,
                                cc_governing_document |-> charityPolicies[1].cc_governing_document])
                     ELSE None,
         policies |-> charityPolicies,
         total |-> Len(charityPolicies)]

(***************************************************************************)
(* A request of any kind run on an array of records.                       *)
(***************************************************************************)
\* array is the array handed in as the call leaves it, value what the call
\* returns.  Only sortPolicies is handed an array it could reorder, and it
\* sorts a copy; filterPolicies starts from [...policies], paginatePolicies
\* slices, and the handlers filter before they map, sort or slice
RunCall(ps, call) ==
    CASE call.op = "filter" ->
            [array |-> ps, value |-> filterPolicies(ps, call.filters)]
      [] call.op = "sort" -> sortPolicies(ps, call.sortBy, call.order)
      [] call.op = "paginate" ->
            [array |-> ps, value |-> paginatePolicies(ps, call.page, call.perPage)]
      [] call.op = "sanctions" ->
            [array |-> ps, value |-> SanctionsGET(ps, call.name, call.regime).body]
      [] call.op = "charity" -> [array |-> ps, value |-> CharityGET(ps, call.regNo)]
      [] call.op = "analytics" -> [array |-> ps, value |-> AnalyticsGET(ps, call.now)]

(***************************************************************************)
(* The record sets and filter specs the requests are drawn from.           *)
(***************************************************************************)
\* records that differ in every facet the filter reads
FilterCorpus ==
    { CharityPolicy(<<"p1">>, <<"A">>, <<"a">>, D20231231, D20240115, "CC",
                    "governance", "guidance", None, None, None, None),
      CharityPolicy(<<"p2">>, <<"A","b">>, <<"a">>, D20240115, D20240115, "CC",
                    "governance", "case", None, None, Some("c1"), Some("high")),
      CharityPolicy(<<"p3">>, <<"A">>, <<"a">>, D20240115, D20240301, "ICO",
                    "gdpr", "enforcement", None, None, None, Some("critical")),
      CharityPolicy(<<"p4">>, <<"A","b">>, <<"a">>, D20240301, D20240301, "ICO",
                    "gdpr", "guidance", None, None, Some("c2"), None),
      CharityPolicy(<<"p5">>, <<"A">>, <<"a">>, D20240301, D20240301, "OFSI",
                    "sanctions", "sanction", None, None, None, Some("high")),
      CharityPolicy(<<"p6">>, <<"A","b">>, <<"a">>, D20231231, D20231231, "OFSI",
                    "sanctions", "case", None, None, None, Some("low")) }

SearchOptions == {None, Some(<<"B">>)}

RegulatorOptions ==
    {None, Some(One("ICO")), Some(Many(<<"CC", "OFSI">>)), Some(Many(<<>>))}

DomainOptions ==
    {None, Some(One("sanctions")), Some(Many(<<"governance", "gdpr">>))}

DocumentTypeOptions ==
    {None, Some(One("case")), Some(Many(<<"guidance", "enforcement">>))}

DateFromOptions == {None, Some(D20240115), Some(<<"2","0","2","4">>)}

DateToOptions ==
    {None, Some(<<>>), Some(D20240115), Some(<<"2","0","2","4","-","0","3">>)}

HasCaseIdOptions == {None, Some(TRUE), Some(FALSE)}

RiskLevelOptions == {None, Some("high"), Some("")}

\* the facets a filter spec carries
Present(filters) == {n \in FacetNames : filters[n] # None}

FilterSpecs ==
    { f \in [search : SearchOptions, regulator : RegulatorOptions,
             domain : DomainOptions, document_type : DocumentTypeOptions,
             date_from : DateFromOptions, date_to : DateToOptions,
             has_case_id : HasCaseIdOptions, risk_level : RiskLevelOptions] :
        Cardinality(Present(f)) <= MaxFacets }

\* records that differ in the four fields the text search reads
SearchCorpus ==
    { CharityPolicy(<<t, s, cn, kw>>, t, s, D20240115, D20240115, "CC", "governance",
                    "guidance", cn, kw, None, None) :
        t \in {<<"A","b">>, <<"B">>},
        s \in {<<"b">>, <<"B","A">>},
        cn \in {None, Some(<<"a","B">>)},
        kw \in {None, Some(<< <<"A">> >>), Some(<< <<"b">>, <<"a","b">> >>)} }

SearchQueries ==
    {Some(<<>>), Some(<<"a">>), Some(<<"A","B">>), Some(<<"b","a">>),
     Some(<<"b","b">>)}

SearchSpecs == {[NoFilters EXCEPT !.search = q] : q \in SearchQueries}

(***************************************************************************)
(* The request handlers.                                                   *)
(***************************************************************************)
NoRequest == [op |-> "none"]

NoResponse == [threw |-> FALSE, value |-> <<>>]

\* a filter request over the loaded records; a behaviour follows one
\* request from its arrival to its response
Filter(f) ==
    /\ request = NoRequest
    /\ request' = [op |-> "filter", input |-> policies, filters |-> f]
    /\ response' = filterPolicies(policies, f)
    /\ UNCHANGED policies

InitFilter ==
    /\ policies \in SeqsUpTo(FilterCorpus, MaxLen)
    /\ request = NoRequest
    /\ response = NoResponse

NextFilter == \E f \in FilterSpecs : Filter(f)

SpecFilter == InitFilter /\ [][NextFilter]_vars

InitSearch ==
    /\ policies \in SeqsUpTo(SearchCorpus, MaxLen)
    /\ request = NoRequest
    /\ response = NoResponse

NextSearch == \E f \in SearchSpecs : Filter(f)

SpecSearch == InitSearch /\ [][NextSearch]_vars

\* records that differ in the three fields the sorter reads; several share
\* a title or a date
SortCorpus ==
    { p \in { CharityPolicy(<<t, pd, lu>>, t, <<"a">>, pd, lu, "CC", "governance",
                            "guidance", None, None, None, None) :
                  t \in {<<"a">>, <<"B">>, <<"A","b">>},
                  pd \in {D20231231, D20240115},
                  lu \in {D20240115, D20240301} } :
        p.last_updated = D20240115 => p.title = <<"a">> }

\* a sort request over the loaded records
Sort(sortBy, order) ==
    /\ request = NoRequest
    /\ request' = [op |-> "sort", input |-> policies, sortBy |-> sortBy,
                   order |-> order]
    /\ policies' = sortPolicies(policies, sortBy, order).array
    /\ response' = [threw |-> FALSE,
                    value |-> sortPolicies(policies, sortBy, order).value]

InitSort ==
    /\ policies \in SeqsUpTo(SortCorpus, MaxSortLen)
    /\ request = NoRequest
    /\ response = NoResponse

NextSort == \E sortBy \in SortFields, order \in SortOrders : Sort(sortBy, order)

SpecSort == InitSort /\ [][NextSort]_vars

\* two records told apart by their title
PageCorpus ==
    { CharityPolicy(<<t>>, t, <<"a">>, D20240115, D20240115, "CC", "governance",
                    "guidance", None, None, None, None) :
        t \in {<<"a">>, <<"b">>} }

\* a paginate request over the loaded records; the paginator validates
\* neither argument, and every caller passes a page size of at least 1
Paginate(page, perPage) ==
    /\ request = NoRequest
    /\ request' = [op |-> "paginate", input |-> policies, page |-> page,
                   perPage |-> perPage]
    /\ response' = [threw |-> FALSE,
                    value |-> paginatePolicies(policies, page, perPage)]
    /\ UNCHANGED policies

InitPaginate ==
    /\ policies \in SeqsUpTo(PageCorpus, MaxPageLen)
    /\ request = NoRequest
    /\ response = NoResponse

NextPaginate ==
    \E page \in (1 - LowPages)..MaxPage, perPage \in 1..MaxPerPage :
        Paginate(page, perPage)

SpecPaginate == InitPaginate /\ [][NextPaginate]_vars

\* a record of the sanctions list, or of another domain
SanctionsEntry(id, title, summary, domain, regime, charity_name, keywords) ==
    [CharityPolicy(id, title, summary, D20240115, D20240115, "OFSI", domain,
                   "sanction", charity_name, keywords, None, None)
        EXCEPT !.sanctions_regime = regime,
               !.designated_by = IF regime = None THEN None ELSE Some("UK")]

\* the label leading a title, and inside one
LabelledTitle == SanctionsLabel \o <<"A","b">>

InnerLabelTitle == <<"B","a"," ">> \o SanctionsLabel \o <<"a">>

\* records in and out of the sanctions domain, with and without a regime, a
\* name hit in the title, in the summary, or in charity_name and keywords only
SanctionsCorpus ==
    { SanctionsEntry(<<t, d, r>>, t, <<"b">>, d, r, None, None) :
        t \in {LabelledTitle, InnerLabelTitle, <<"B">>},
        d \in {"sanctions", "governance"},
        r \in {None, Some(<<"a","B">>)} }
    \cup
    { SanctionsEntry(<<"summary">>, <<"B">>, <<"B","a">>, "sanctions",
                     Some(<<"b">>), None, None),
      SanctionsEntry(<<"keywords">>, <<"B">>, <<"b">>, "sanctions", None,
                     Some(<<"a","b">>), Some(<< <<"A","b">> >>)) }

\* a list of n records that repeats the templates, each record with an id of
\* its own
LongList(n, templates) ==
    [i \in 1..n |-> [templates[((i - 1) % Len(templates)) + 1] EXCEPT !.id = <<i>>]]

LongLists ==
    LET hit == SanctionsEntry(<<0>>, LabelledTitle, <<"b">>, "sanctions",
                              Some(<<"a","B">>), None, None)
        miss == SanctionsEntry(<<0>>, <<"B">>, <<"b">>, "sanctions", None, None, None)
    IN  { LongList(n, t) : n \in (ResultCap - 1)..(ResultCap + MaxOverCap),
                           t \in {<<hit>>, <<hit, miss>>, <<hit, hit, miss>>} }

\* the name and regime parameters of a request; None is a parameter the URL
\* does not carry
NameParameters ==
    {None, Some(<<"a">>), Some(<<"A","b">>), Some(<<"b","a">>), Some(<<"b","b">>)}

RegimeParameters == {None, Some(<<>>), Some(<<"A","b">>), Some(<<"b">>)}

\* a sanctions lookup over the loaded records
Sanctions(name, regime) ==
    /\ request = NoRequest
    /\ request' = [op |-> "sanctions", input |-> policies, name |-> name,
                   regime |-> regime]
    /\ response' = [threw |-> FALSE,
                    loaded |-> SanctionsGET(policies, name, regime).loaded,
                    value |-> SanctionsGET(policies, name, regime).body]
    /\ UNCHANGED policies

InitSanctions ==
    /\ policies \in SeqsUpTo(SanctionsCorpus, MaxSanctionsLen) \cup LongLists
    /\ request = NoRequest
    /\ response = NoResponse

NextSanctions ==
    \E name \in NameParameters, regime \in RegimeParameters : Sanctions(name, regime)

SpecSanctions == InitSanctions /\ [][NextSanctions]_vars

\* the values the analytics records run through, one regulator a record
RegulatorList == <<"CC", "ICO", "OFSI", "HSE", "HMRC", "FR", "OSCR", "CCNI", "ASA">>

DomainList ==
    <<"governance", "safeguarding", "gdpr", "health_safety",
      "financial_reporting", "risk_management", "anti_fraud", "sanctions">>

TypeList == <<"guidance", "case", "enforcement", "regulation", "alert", "sanction">>

DateList == <<D20231231, D20240115, D20240301>>

RiskList == <<None, Some("high"), Some("low"), Some("critical")>>

Cycle(list, i) == list[((i - 1) % Len(list)) + 1]

\* a record of every regulator; domains, types, dates and risk levels vary
\* along, two of the high and critical records sharing a date
AnalyticsRecord(i) ==
    CharityPolicy(<<RegulatorList[i]>>, <<"a">>, <<"b">>, Cycle(DateList, i),
                  Cycle(DateList, i + 1), RegulatorList[i], Cycle(DomainList, i),
                  Cycle(TypeList, i), None, None, None, Cycle(RiskList, i))

AnalyticsCorpus == { AnalyticsRecord(i) : i \in 1..Len(RegulatorList) }

\* lists with about as many high and critical records as high_risk_recent
\* holds, all of them risky or one in four not
RiskyLists ==
    { LongList(n, t) :
        n \in (HighRiskCap - 1)..(HighRiskCap + MaxOverHighRisk),
        t \in { <<AnalyticsRecord(2), AnalyticsRecord(4), AnalyticsRecord(6), AnalyticsRecord(8)>>,
                <<AnalyticsRecord(8), AnalyticsRecord(1), AnalyticsRecord(4), AnalyticsRecord(6)>> } }

\* the host's clock when the request runs: local year and month (0-based, as
\* getMonth gives it), and the minutes local time is ahead of UTC
Clocks ==
    { [year |-> ym[1], month |-> ym[2], utcOffset |-> off] :
        ym \in {<<2024, 0>>, <<2024, 2>>, <<2024, 11>>, <<2025, 0>>},
        off \in {-60, 0, 60} }

\* an analytics request over the loaded records
Analytics(now) ==
    /\ request = NoRequest
    /\ request' = [op |-> "analytics", input |-> policies, now |-> now]
    /\ response' = [threw |-> FALSE, value |-> AnalyticsGET(policies, now)]
    /\ UNCHANGED policies

InitAnalytics ==
    /\ policies \in SeqsUpTo(AnalyticsCorpus, MaxAnalyticsLen) \cup RiskyLists
    /\ request = NoRequest
    /\ response = NoResponse

NextAnalytics == \E now \in Clocks : Analytics(now)

SpecAnalytics == InitAnalytics /\ [][NextAnalytics]_vars

\* the characters a numeric column is written with: digits, the point, the
\* sign and a letter
NumberChars == {"0", "1", ".", "-", "a"}

NumberTexts == SeqsUpTo(NumberChars, MaxNumberLen)

\* the texts of the other numeric column
IncomeTexts == {<<>>, <<"1","5">>, <<"a">>, <<"1","a">>}

\* a row of the data file, its columns by name
Row(id, fine_amount, cc_latest_income, keywords) ==
    [id |-> id, title |-> <<"a">>, summary |-> <<"b">>,
     source_url |-> "https://www.gov.uk/", published_date |-> D20240115,
     last_updated |-> D20240301, regulator |-> "CC", domain |-> "governance",
     document_type |-> "enforcement", charity_number |-> "", charity_name |-> <<>>,
     charity_income_band |-> "", risk_level |-> "high", case_id |-> "c1",
     case_status |-> "", outcome |-> <<>>, issues_identified |-> <<>>,
     sanctions_regime |-> <<>>, designated_by |-> "", fine_amount |-> fine_amount,
     keywords |-> keywords, cc_registered_number |-> "", cc_suffix |-> "",
     cc_status |-> "", cc_latest_income |-> cc_latest_income,
     cc_governing_document |-> "", cc_primary_region |-> ""]

\* the data file: missing, without rows, of one row, or of two
DataFiles ==
    {None, Some(<<>>)}
    \cup { Some(<<Row(<<"r1">>, fine, income, <<"a","|","b">>)>>) :
             fine \in NumberTexts, income \in IncomeTexts }
    \cup { Some(<<Row(<<"r1">>, f1, <<>>, <<>>), Row(<<"r2">>, f2, <<"a">>, <<"a">>)>>) :
             f1 \in {<<>>, <<"a">>}, f2 \in {<<"1">>, <<"-",".","1">>} }

\* the data file is read
Load(file) ==
    /\ request = NoRequest
    /\ request' = [op |-> "load", file |-> file]
    /\ policies' = getAllPolicies(file)
    /\ response' = [threw |-> FALSE, value |-> getAllPolicies(file)]

InitLoad ==
    /\ policies = <<>>
    /\ request = NoRequest
    /\ response = NoResponse

NextLoad == \E file \in DataFiles : Load(file)

SpecLoad == InitLoad /\ [][NextLoad]_vars

\* a record with the register fields the charity lookup reads
RegisteredPolicy(id, title, published, regulator, domain, risk, charity_number, cc_registered_number) ==
    [CharityPolicy(id, title, <<"b">>, published, D20240301, regulator, domain,
                   "case", Some(<<"a">>), None, None, risk)
        EXCEPT !.sanctions_regime = Some(<<"a","B">>)]
    @@ [charity_number |-> charity_number, cc_registered_number |-> cc_registered_number,
        cc_status |-> Some("Registered"), cc_latest_income |-> Some(Number(15, 0)),
        cc_primary_region |-> None, cc_governing_document |-> None]

SharedFirst ==
    RegisteredPolicy(<<"s1">>, <<"B">>, D20231231, "CC", "governance",
                     Some("high"), Some("1001"), None)

SharedSecond ==
    RegisteredPolicy(<<"s2">>, <<"a","B">>, D20240301, "OFSI", "sanctions",
                     None, None, Some("1001"))

SharedThird ==
    RegisteredPolicy(<<"s3">>, <<"A","b">>, D20240115, "ICO", "gdpr",
                     Some("critical"), Some("9"), None)

\* the record sequence the requests share, in orders no sort leaves alone
SharedSequences ==
    { <<SharedFirst, SharedSecond, SharedThird>>,
      <<SharedSecond, SharedThird, SharedFirst>>,
      <<SharedThird, SharedFirst>>,
      <<SharedFirst, SharedThird, SharedSecond, SharedFirst>> }

\* the requests a client may send
Calls ==
    { [op |-> "filter", filters |-> [NoFilters EXCEPT !.regulator = Some(One("ICO"))]],
      [op |-> "filter", filters |-> [NoFilters EXCEPT !.risk_level = Some("high")]],
      [op |-> "sort", sortBy |-> "published_date", order |-> "desc"],
      [op |-> "sort", sortBy |-> "title", order |-> "asc"],
      [op |-> "paginate", page |-> 1, perPage |-> 1],
      [op |-> "paginate", page |-> 2, perPage |-> 2],
      [op |-> "sanctions", name |-> Some(<<"A","b">>), regime |-> None],
      [op |-> "charity", regNo |-> "1001"],
      [op |-> "charity", regNo |-> "9"],
      [op |-> "analytics", now |-> [year |-> 2024, month |-> 2, utcOffset |-> 0]] }

Clients == 1..MaxClients

\* a request arrives: its handler is to run on the shared sequence, which
\* input remembers as it was on arrival
Arrive(c, call) ==
    /\ request[c] = NoRequest
    /\ request' = [request EXCEPT ![c] = [op |-> call.op, call |-> call,
                                           input |-> policies, handled |-> FALSE]]
    /\ UNCHANGED <<policies, response>>

\* the handler of a request runs, from start to end: a handler has no await
\* in it, so no other handler runs in between
Handle(c) ==
    /\ request[c] # NoRequest
    /\ request[c].handled = FALSE
    /\ request' = [request EXCEPT ![c].handled = TRUE]
    /\ policies' = RunCall(policies, request[c].call).array
    /\ response' = [response EXCEPT ![c] =
                        [threw |-> FALSE, value |-> RunCall(policies, request[c].call).value]]

InitConcurrent ==
    /\ policies \in SharedSequences
    /\ request = [c \in Clients |-> NoRequest]
    /\ response = [c \in Clients |-> NoResponse]

NextConcurrent ==
    \/ \E c \in Clients, call \in Calls : Arrive(c, call)
    \/ \E c \in Clients : Handle(c)

SpecConcurrent == InitConcurrent /\ [][NextConcurrent]_vars

(***************************************************************************)
(* Properties of filterPolicies.                                           *)
(***************************************************************************)
\* needle occurs somewhere in hay
IsSubstring(needle, hay) ==
    \E i \in 1..(Len(hay) + 1) :
        /\ i + Len(needle) - 1 <= Len(hay)
        /\ SubSeq(hay, i, i + Len(needle) - 1) = needle

\* a <= b in the lexical order of code units
LexLeq(a, b) ==
    \/ Len(a) <= Len(b) /\ SubSeq(b, 1, Len(a)) = a
    \/ \E k \in 1..Len(a) :
           /\ k <= Len(b)
           /\ SubSeq(a, 1, k - 1) = SubSeq(b, 1, k - 1)
           /\ CodeUnit(a[k]) < CodeUnit(b[k])

\* a is b with some elements left out, the rest in b's order
RECURSIVE IsSubsequence(_, _)
IsSubsequence(a, b) ==
    IF a = <<>> THEN TRUE
    ELSE IF b = <<>> THEN FALSE
    ELSE IF Head(a) = Head(b) THEN IsSubsequence(Tail(a), Tail(b))
    ELSE IsSubsequence(a, Tail(b))

\* the text of a record the query is looked for in
SearchedTexts(p) ==
    {p.title, p.summary} \cup p.charity_name
    \cup (IF p.keywords = None THEN {}
          ELSE {Value(p.keywords)[i] : i \in 1..Len(Value(p.keywords))})

TextMatches(p, query) ==
    \E t \in SearchedTexts(p) : IsSubstring(toLowerCase(query), toLowerCase(t))

IsCaseRecord(p) ==
    p.case_id # None \/ p.document_type \in {"case", "enforcement"}

SuppliedValues(facet) == {facet.items[i] : i \in 1..Len(facet.items)}

\* a facet is supplied when the spec holds a value for it other than the
\* empty string and, for the flag, other than false
Supplied(filters, n) ==
    /\ filters[n] # None
    /\ n \in {"search", "date_from", "date_to"} => filters[n] # Some(<<>>)
    /\ n = "risk_level" => filters[n] # Some("")
    /\ n = "has_case_id" => filters[n] = Some(TRUE)

\* record p satisfies facet n of the spec
SatisfiesFacet(p, filters, n) ==
    CASE n = "search" -> TextMatches(p, Value(filters.search))
      [] n = "regulator" -> p.regulator \in SuppliedValues(Value(filters.regulator))
      [] n = "domain" -> p.domain \in SuppliedValues(Value(filters.domain))
      [] n = "document_type" ->
             p.document_type \in SuppliedValues(Value(filters.document_type))
      [] n = "date_from" -> LexLeq(Value(filters.date_from), p.published_date)
      [] n = "date_to" -> LexLeq(p.published_date, Value(filters.date_to))
      [] n = "has_case_id" -> IsCaseRecord(p)
      [] n = "risk_level" -> p.risk_level = filters.risk_level

SatisfiesAll(p, filters) ==
    \A n \in FacetNames : Supplied(filters, n) => SatisfiesFacet(p, filters, n)

\* C1: filterPolicies returns exactly the records that satisfy every
\* supplied facet, in their input order; a multi-value facet is satisfied by
\* membership in the supplied values; an absent facet constrains nothing.
C1_FilterIsConjunctionOfFacets ==
    request.op = "filter" =>
        /\ ~response.threw
        /\ response.value =
               SelectSeq(request.input, LAMBDA p : SatisfiesAll(p, request.filters))

\* two facets supplied, one of them an array of values; some record is kept
\* and some record is dropped
C1_Witness ==
    /\ request.op = "filter"
    /\ Cardinality({n \in FacetNames : Supplied(request.filters, n)}) = 2
    /\ \E n \in {"regulator", "domain", "document_type"} :
           /\ request.filters[n] # None
           /\ Value(request.filters[n]).isArray
           /\ Len(Value(request.filters[n]).items) = 2
    /\ Len(response.value) = 1
    /\ Len(request.input) = 2
    /\ response.value[1] = request.input[2]

WithoutFacet(filters, n) == [filters EXCEPT ![n] = None]

\* C2: with has_case_id set, a record is kept iff it has a case_id or its
\* document_type is case or enforcement; unset or false, the flag excludes
\* nothing.
C2_HasCaseIdIsUnionOfSignals ==
    request.op = "filter" =>
        LET others == filterPolicies(request.input,
                                     WithoutFacet(request.filters, "has_case_id")).value
        IN  response.value =
                IF request.filters.has_case_id = Some(TRUE)
                THEN SelectSeq(others, IsCaseRecord)
                ELSE others

\* the flag keeps a case without a case_id and a guidance document with one,
\* and drops a record with neither signal
C2_Witness ==
    /\ request.op = "filter"
    /\ request.filters.has_case_id = Some(TRUE)
    /\ Len(request.input) = 2
    /\ \E i \in 1..Len(response.value) :
           response.value[i].case_id = None /\ response.value[i].document_type = "case"
    /\ \E i \in 1..Len(response.value) :
           response.value[i].case_id # None
           /\ response.value[i].document_type = "guidance"

\* the flag false, and a record with neither signal kept
C2_WitnessFlagFalse ==
    /\ request.op = "filter"
    /\ request.filters.has_case_id = Some(FALSE)
    /\ \E i \in 1..Len(response.value) : ~IsCaseRecord(response.value[i])

InDateRange(p, filters) ==
    /\ Supplied(filters, "date_from") =>
           LexLeq(Value(filters.date_from), p.published_date)
    /\ Supplied(filters, "date_to") =>
           LexLeq(p.published_date, Value(filters.date_to))

\* C3: with date bounds supplied, a record is kept iff
\* date_from <= published_date <= date_to in the lexical order of strings,
\* both bounds inclusive.
C3_DateBoundsInclusive ==
    request.op = "filter" =>
        LET others == filterPolicies(request.input,
                          WithoutFacet(WithoutFacet(request.filters, "date_from"),
                                       "date_to")).value
        IN  response.value =
                SelectSeq(others, LAMBDA p : InDateRange(p, request.filters))

\* both bounds supplied and equal to the published_date of a kept record,
\* while an earlier and a later record are dropped
C3_Witness ==
    /\ request.op = "filter"
    /\ request.filters.date_from = Some(D20240115)
    /\ request.filters.date_to = Some(D20240115)
    /\ Len(request.input) = 2
    /\ Len(response.value) = 1
    /\ response.value[1].published_date = D20240115

\* C5: filtering a filtered sequence again by the same spec changes nothing.
C5_FilterIdempotent ==
    request.op = "filter" =>
        filterPolicies(response.value, request.filters) = response

\* a filter that dropped a record and kept one
C5_Witness ==
    /\ request.op = "filter"
    /\ Supplied(request.filters, "risk_level")
    /\ Len(request.input) = 2
    /\ Len(response.value) = 1

OptionsOf(n) ==
    CASE n = "search" -> SearchOptions
      [] n = "regulator" -> RegulatorOptions
      [] n = "domain" -> DomainOptions
      [] n = "document_type" -> DocumentTypeOptions
      [] n = "date_from" -> DateFromOptions
      [] n = "date_to" -> DateToOptions
      [] n = "has_case_id" -> HasCaseIdOptions
      [] n = "risk_level" -> RiskLevelOptions

\* C6: adding one more facet to a spec yields a subsequence of the result
\* for the spec, so the result never grows.
C6_FilterMonotonic ==
    request.op = "filter" =>
        \A n \in FacetNames \ Present(request.filters) :
            \A v \in OptionsOf(n) \ {None} :
                LET more == filterPolicies(request.input,
                                           [request.filters EXCEPT ![n] = v])
                IN  /\ ~more.threw
                    /\ IsSubsequence(more.value, response.value)
                    /\ Len(more.value) <= Len(response.value)

\* a spec with one facet whose result strictly shrinks when a second facet
\* is added
C6_Witness ==
    /\ request.op = "filter"
    /\ Cardinality(Present(request.filters)) = 1
    /\ Len(response.value) = 2
    /\ \E n \in FacetNames \ Present(request.filters) :
           \E v \in OptionsOf(n) \ {None} :
               Len(filterPolicies(request.input,
                                  [request.filters EXCEPT ![n] = v]).value) = 1

\* C4: with a non-empty query, a record passes the text search iff the
\* lower-cased query is a substring of its lower-cased title, summary,
\* charity_name when present, or of some lower-cased keyword when present;
\* a record with neither charity_name nor keywords raises no error.
C4_TextSearchFields ==
    (request.op = "filter" /\ Supplied(request.filters, "search")) =>
        /\ ~response.threw
        /\ response.value =
               SelectSeq(request.input,
                         LAMBDA p : TextMatches(p, Value(request.filters.search)))

\* one record kept through a keyword alone, in a different letter case, and
\* one record with neither charity_name nor keywords dropped
C4_Witness ==
    /\ request.op = "filter"
    /\ request.filters.search = Some(<<"a">>)
    /\ Len(request.input) = 2
    /\ Len(response.value) = 1
    /\ response.value[1].title = <<"B">>
    /\ response.value[1].summary = <<"b">>
    /\ response.value[1].charity_name = None
    /\ response.value[1].keywords = Some(<< <<"A">> >>)
    /\ \E i \in 1..2 :
           /\ request.input[i].charity_name = None
           /\ request.input[i].keywords = None
           /\ request.input[i] # response.value[1]

(***************************************************************************)
(* Properties of sortPolicies.                                             *)
(***************************************************************************)
Occurrences(seq, x) == Cardinality({i \in 1..Len(seq) : seq[i] = x})

IsPermutation(a, b) ==
    /\ Len(a) = Len(b)
    /\ \A i \in 1..Len(a) : Occurrences(a, a[i]) = Occurrences(b, a[i])

\* the value of the sort field of record p
SortKey(p, sortBy) ==
    CASE sortBy = "title" -> p.title
      [] sortBy = "published_date" -> p.published_date
      [] sortBy = "last_updated" -> p.last_updated

KeysTie(p, q, sortBy) == localeCompare(SortKey(p, sortBy), SortKey(q, sortBy)) = 0

\* C7: sortPolicies returns a permutation of its input, non-decreasing in
\* the sort field for asc and non-increasing for desc, and leaves the input
\* sequence as it was.
C7_SortIsOrderedPermutation ==
    request.op = "sort" =>
        /\ IsPermutation(response.value, request.input)
        /\ \A i, j \in 1..Len(response.value) :
               i < j =>
                   LET c == localeCompare(SortKey(response.value[i], request.sortBy),
                                          SortKey(response.value[j], request.sortBy))
                   IN  IF request.order = "asc" THEN c <= 0 ELSE c >= 0
        /\ policies = request.input

\* an input of three records that the sort had to reorder, by title, where
\* collation and code units disagree (a before B)
C7_Witness ==
    /\ request.op = "sort"
    /\ request.sortBy = "title"
    /\ request.order = "asc"
    /\ Len(request.input) = 3
    /\ request.input[1].title = <<"B">>
    /\ request.input[3].title = <<"a">>
    /\ response.value[1].title = <<"a">>
    /\ response.value[3].title = <<"B">>
    /\ response.value # request.input

\* the records of seq whose sort key ties with p's, in seq's order
TiedWith(seq, p, sortBy) == SelectSeq(seq, LAMBDA q : KeysTie(p, q, sortBy))

\* C8: records whose sort keys compare equal keep their input order in the
\* output, for asc and for desc.
C8_SortStable ==
    request.op = "sort" =>
        \A i \in 1..Len(request.input) :
            TiedWith(response.value, request.input[i], request.sortBy)
                = TiedWith(request.input, request.input[i], request.sortBy)

\* a descending sort that moved a record while two different records with
\* the same key kept their input order
C8_Witness ==
    /\ request.op = "sort"
    /\ request.order = "desc"
    /\ Len(request.input) = 3
    /\ response.value # request.input
    /\ KeysTie(request.input[1], request.input[2], request.sortBy)
    /\ request.input[1] # request.input[2]
    /\ response.value[2] = request.input[1]
    /\ response.value[3] = request.input[2]

AscendingReversed(input) ==
    Reverse(sortPolicies(input, "published_date", "asc").value)

\* C9 as stated: for every record sequence, also one in which records share
\* a published_date, the ascending sort reversed equals the descending sort.
C9_ReversedAscendingEqualsDescending ==
    (request.op = "sort" /\ request.sortBy = "published_date"
        /\ request.order = "desc") =>
        AscendingReversed(request.input) = response.value

PublishedDates(seq) == [i \in 1..Len(seq) |-> seq[i].published_date]

\* no two different records of seq have the same published_date
NoDifferentRecordsShareDate(seq) ==
    \A i, j \in 1..Len(seq) :
        KeysTie(seq[i], seq[j], "published_date") => seq[i] = seq[j]

\* C9 amended: the ascending sort reversed and the descending sort carry the
\* same published_date at every position, and are equal element for element
\* when no two different records share a published_date.
C9_ReversedAscendingAgreesOnDates ==
    (request.op = "sort" /\ request.sortBy = "published_date"
        /\ request.order = "desc") =>
        /\ PublishedDates(AscendingReversed(request.input))
               = PublishedDates(response.value)
        /\ NoDifferentRecordsShareDate(request.input) =>
               AscendingReversed(request.input) = response.value

\* records of both dates, no two different ones sharing a date, reordered
\* by the sort
C9_Witness ==
    /\ request.op = "sort"
    /\ request.sortBy = "published_date"
    /\ request.order = "desc"
    /\ Len(request.input) = 3
    /\ NoDifferentRecordsShareDate(request.input)
    /\ response.value # request.input
    /\ response.value[1].published_date # response.value[3].published_date

(***************************************************************************)
(* Properties of paginatePolicies.                                         *)
(***************************************************************************)
\* the slice paginatePolicies returns for page k of the request's input
PageOf(k) == paginatePolicies(request.input, k, request.perPage).data

RECURSIVE PagesJoined(_)
PagesJoined(n) == IF n = 0 THEN <<>> ELSE PagesJoined(n - 1) \o PageOf(n)

RECURSIVE PageSizesSum(_)
PageSizesSum(n) == IF n = 0 THEN 0 ELSE PageSizesSum(n - 1) + Len(PageOf(n))

\* C10: for perPage >= 1 the sizes of pages 1..totalPages sum to total, the
\* pages laid end to end are the input (every position in exactly one page),
\* and the last page holds between 1 and perPage records when total > 0.
C10_PagesPartitionInput ==
    (request.op = "paginate" /\ request.perPage >= 1) =>
        LET total == response.value.total
            last == response.value.totalPages
        IN  /\ PageSizesSum(last) = total
            /\ PagesJoined(last) = request.input
            /\ total > 0 =>
                   /\ last >= 1
                   /\ Len(PageOf(last)) >= 1
                   /\ Len(PageOf(last)) <= request.perPage

\* five records in pages of two: three pages, the last one holding one record
C10_Witness ==
    /\ request.op = "paginate"
    /\ request.perPage = 2
    /\ response.value.total = 5
    /\ response.value.totalPages = 3
    /\ Len(PageOf(3)) = 1
    /\ request.page = 3
    /\ response.value.data = <<request.input[5]>>

Min(a, b) == IF a < b THEN a ELSE b

\* C11: for page >= 1 and perPage >= 1 the page holds the input records at
\* 0-based positions (page-1)*perPage up to, not including,
\* min(page*perPage, total), in input order; a page beyond totalPages is empty.
C11_PageIsOffsetSlice ==
    (request.op = "paginate" /\ request.page >= 1 /\ request.perPage >= 1) =>
        LET total == Len(request.input)
            first == (request.page - 1) * request.perPage
            last == Min(request.page * request.perPage, total)
            data == response.value.data
        IN  /\ Len(data) = (IF last > first THEN last - first ELSE 0)
            /\ \A i \in 1..Len(data) : data[i] = request.input[first + i]
            /\ request.page > response.value.totalPages => data = <<>>

\* five records, pages of three, page 2: the two records left over
C11_Witness ==
    /\ request.op = "paginate"
    /\ request.page = 2
    /\ request.perPage = 3
    /\ Len(request.input) = 5
    /\ request.input[4] # request.input[5]
    /\ response.value.data = <<request.input[4], request.input[5]>>

\* C12: whatever the page, total is the length of the sequence given and
\* totalPages is ceil(total / perPage): the least count of pages of perPage
\* records that hold total records, 0 for an empty sequence.
C12_TotalAndTotalPages ==
    (request.op = "paginate" /\ request.perPage >= 1) =>
        LET total == response.value.total
            totalPages == response.value.totalPages
        IN  /\ total = Len(request.input)
            /\ totalPages >= 0
            /\ totalPages * request.perPage >= total
            /\ totalPages > 0 => (totalPages - 1) * request.perPage < total
            /\ request.input = <<>> => totalPages = 0

\* a page past the end: its slice is empty while total and totalPages still
\* describe the five records
C12_Witness ==
    /\ request.op = "paginate"
    /\ request.page = 4
    /\ request.perPage = 2
    /\ response.value.data = <<>>
    /\ response.value.total = 5
    /\ response.value.totalPages = 3

\* C13: for perPage >= 1, a page number of zero or below yields an empty
\* slice.
C13_NonPositivePageIsEmpty ==
    (request.op = "paginate" /\ request.page <= 0 /\ request.perPage >= 1) =>
        response.value.data = <<>>
(***************************************************************************)
(* Properties of the sanctions lookup.                                     *)
(***************************************************************************)
IsLookup == request.op = "sanctions"

\* the name is there and has at least two characters
PassesGuard == request.name # None /\ Len(Value(request.name)) >= 2

Ids(records) == [i \in 1..Len(records) |-> records[i].id]

Prefix(records, n) == SubSeq(records, 1, Min(n, Len(records)))

\* the sanctions records whose title or summary holds the name, case folded
NameHits(ps, name) ==
    SelectSeq(ps, LAMBDA p :
        /\ p.domain = "sanctions"
        /\ \/ IsSubstring(toLowerCase(name), toLowerCase(p.title))
           \/ IsSubstring(toLowerCase(name), toLowerCase(p.summary)))

\* of these, the records whose regime holds the regime asked for, case folded
RegimeHits(ps, name, regime) ==
    SelectSeq(NameHits(ps, name), LAMBDA p :
        /\ p.sanctions_regime # None
        /\ IsSubstring(toLowerCase(regime), toLowerCase(Value(p.sanctions_regime))))

\* the matches of a request that passes the guard
Hits ==
    IF request.regime = None \/ request.regime = Some(<<>>)
    THEN NameHits(request.input, Value(request.name))
    ELSE RegimeHits(request.input, Value(request.name), Value(request.regime))

\* C14: a lookup whose name is missing or shorter than 2 characters answers
\* with success, count 0, an empty list and no advisory, and loads no record.
C14_TooShortAnswersCountZero ==
    (IsLookup /\ ~PassesGuard) =>
        /\ response.threw = FALSE
        /\ response.value.success = TRUE
        /\ response.value.count = Some(0)
        /\ response.value.data = <<>>
        /\ response.value.warning = None
        /\ response.loaded = FALSE

\* C15: with a name of at least 2 characters and no regime, the matches are
\* exactly the records of domain sanctions whose lower-cased title or summary
\* contains the lower-cased name, in input order; keywords and charity_name
\* are not read and no record of another domain matches.
C15_NameMatchesTitleOrSummaryOfSanctions ==
    (IsLookup /\ PassesGuard /\ request.regime = None) =>
        /\ response.value.count = Some(Len(NameHits(request.input, Value(request.name))))
        /\ Ids(response.value.data)
             = Ids(Prefix(NameHits(request.input, Value(request.name)), ResultCap))

C15_Witness ==
    /\ IsLookup /\ PassesGuard /\ request.regime = None
    /\ request.name = Some(<<"A","b">>)
    /\ Len(request.input) = 2
    /\ request.input[1].domain = "sanctions"
    /\ request.input[1].title = LabelledTitle
    /\ request.input[2].domain = "governance"
    /\ request.input[2].title = LabelledTitle
    /\ Ids(response.value.data) = <<request.input[1].id>>

\* C16: with a regime supplied a name match is kept iff it has a
\* sanctions_regime whose lower-cased value contains the lower-cased regime;
\* with no regime, or an empty one, the name matches are returned as they are.
C16_RegimeKeepsContainingRegimes ==
    (IsLookup /\ PassesGuard) =>
        IF request.regime = None \/ request.regime = Some(<<>>)
        THEN Ids(response.value.data)
               = Ids(Prefix(NameHits(request.input, Value(request.name)), ResultCap))
        ELSE /\ Ids(response.value.data)
                  = Ids(Prefix(RegimeHits(request.input, Value(request.name),
                                          Value(request.regime)), ResultCap))
             /\ \A i \in 1..Len(request.input) :
                    request.input[i].sanctions_regime = None =>
                        \A j \in 1..Len(response.value.data) :
                            response.value.data[j].id # request.input[i].id

C16_Witness ==
    /\ IsLookup /\ PassesGuard
    /\ request.name = Some(<<"A","b">>)
    /\ request.regime = Some(<<"A","b">>)
    /\ Len(request.input) = 2
    /\ Len(NameHits(request.input, Value(request.name))) = 2
    /\ request.input[1].sanctions_regime = None
    /\ request.input[2].sanctions_regime = Some(<<"a","B">>)
    /\ Ids(response.value.data) = <<request.input[2].id>>

\* C17: for a lookup that passes the guard the count is the number of
\* matching records, and the list holds min(count, 50) of them, never more
\* than 50.
C17_CountUncappedListCapped ==
    (IsLookup /\ PassesGuard) =>
        /\ response.value.count = Some(Len(Hits))
        /\ Len(response.value.data) = Min(Len(Hits), ResultCap)
        /\ Len(response.value.data) <= ResultCap

C17_Witness ==
    /\ IsLookup /\ PassesGuard
    /\ response.value.count = Some(ResultCap + 1)
    /\ Len(response.value.data) = ResultCap
    /\ Ids(response.value.data) = Ids(SubSeq(request.input, 1, ResultCap))

\* C18: a response carries the advisory iff it reports a count greater than
\* zero; a response with hits has it and a response with none has none.
C18_AdvisoryIffSomethingFound ==
    IsLookup =>
        /\ response.value.warning # None
             <=> (response.value.count # None /\ Value(response.value.count) > 0)
        /\ response.value.data # <<>> => response.value.warning # None
        /\ (PassesGuard /\ Len(Hits) = 0) => response.value.warning = None

C18_Witness ==
    /\ IsLookup /\ PassesGuard
    /\ Len(request.input) = 2
    /\ response.value.count = Some(1)
    /\ Len(response.value.data) = 1
    /\ response.value.warning # None

\* the title without the label when the title begins with it, the title
\* otherwise
WithoutLeadingLabel(title) ==
    IF Len(title) >= Len(SanctionsLabel)
       /\ SubSeq(title, 1, Len(SanctionsLabel)) = SanctionsLabel
    THEN SubSeq(title, Len(SanctionsLabel) + 1, Len(title))
    ELSE title

\* C19: each hit is the projection (id, name, regime, designated_by,
\* listed_date, source_url) of its matched record, listed_date being
\* published_date, regime being sanctions_regime, and name being the title
\* without a leading label 'Sanctions: ', a title that holds the label
\* elsewhere being left as it is.
C19_HitIsProjectionWithLeadingLabelStripped ==
    (IsLookup /\ PassesGuard) =>
        /\ Len(response.value.data) = Min(Len(Hits), ResultCap)
        /\ \A i \in 1..Len(response.value.data) :
               response.value.data[i]
                 = [id |-> Hits[i].id,
                    name |-> WithoutLeadingLabel(Hits[i].title),
                    regime |-> Hits[i].sanctions_regime,
                    designated_by |-> Hits[i].designated_by,
                    listed_date |-> Hits[i].published_date,
                    source_url |-> Hits[i].source_url]
(***************************************************************************)
(* Properties of the analytics.                                            *)
(***************************************************************************)
IsAnalytics == request.op = "analytics"

\* the number of records whose field has the value
CountOf(ps, field, v) == Cardinality({i \in 1..Len(ps) : ps[i][field] = v})

RECURSIVE SumOver(_, _)
SumOver(counts, keys) ==
    IF keys = {} THEN 0
    ELSE LET k == CHOOSE x \in keys : TRUE
         IN  counts[k] + SumOver(counts, keys \ {k})

\* C20: by_regulator has an entry for each of the nine regulators, each entry
\* is the number of records of that regulator, and the entries sum to the
\* number of records.
C20_ByRegulatorCountsEveryRegulator ==
    IsAnalytics =>
        /\ DOMAIN response.value.by_regulator = Regulators
        /\ \A r \in Regulators :
               response.value.by_regulator[r] = CountOf(request.input, "regulator", r)
        /\ SumOver(response.value.by_regulator, Regulators) = Len(request.input)
\* C21: by_domain has an entry for each of the 8 domains and by_type one for
\* each of the 6 document types, each entry is the number of records with
\* that value, and the entries of each map sum to the number of records.
C21_ByDomainAndByTypeCountEveryValue ==
    IsAnalytics =>
        /\ DOMAIN response.value.by_domain = ComplianceDomains
        /\ \A d \in ComplianceDomains :
               response.value.by_domain[d] = CountOf(request.input, "domain", d)
        /\ SumOver(response.value.by_domain, ComplianceDomains) = Len(request.input)
        /\ DOMAIN response.value.by_type = DocumentTypes
        /\ \A t \in DocumentTypes :
               response.value.by_type[t] = CountOf(request.input, "document_type", t)
        /\ SumOver(response.value.by_type, DocumentTypes) = Len(request.input)

C21_Witness ==
    /\ IsAnalytics
    /\ Len(request.input) = 2
    /\ request.input[1].domain = "governance"
    /\ request.input[2].domain = "governance"
    /\ request.input[1].document_type = "guidance"
    /\ request.input[2].document_type = "enforcement"
    /\ response.value.by_domain["governance"] = 2
    /\ response.value.by_domain["sanctions"] = 0
    /\ response.value.by_type["guidance"] = 1
    /\ response.value.by_type["enforcement"] = 1
    /\ response.value.by_type["alert"] = 0
\* months counted from year 0: the month of the host's clock
CurrentMonth == request.now.year * 12 + request.now.month

\* the key YYYY-MM of a month counted from year 0
KeyOfMonth(m) == MonthKey(m \div 12, (m % 12) + 1)

\* C22: whatever the current date and the host's offset from UTC, the
\* timeline has 12 buckets keyed YYYY-MM, the keys being 12 consecutive
\* months in ascending order, the last one the current month and the first
\* one the month 11 months before it.
C22_TimelineIsTheTwelveMonthsToNow ==
    IsAnalytics =>
        /\ Len(response.value.timeline) = TimelineMonths
        /\ \A k \in 1..Len(response.value.timeline) :
               response.value.timeline[k].month
                 = KeyOfMonth(CurrentMonth - (TimelineMonths - k))
\* the first 7 characters of a record's published_date
PublishedMonth(p) == SubSeq(p.published_date, 1, Min(MonthKeyLength, Len(p.published_date)))

\* the record's month is none of the timeline's keys
OutsideTimeline(p) ==
    \A k \in 1..Len(response.value.timeline) :
        response.value.timeline[k].month # PublishedMonth(p)

RECURSIVE SumOfCounts(_)
SumOfCounts(buckets) ==
    IF buckets = <<>> THEN 0 ELSE Head(buckets).count + SumOfCounts(Tail(buckets))

\* the timeline's part of C23: bucket counts, no new bucket, sum at most total
TimelineCountsPublishedMonths ==
    IsAnalytics =>
        /\ \A k \in 1..Len(response.value.timeline) :
               response.value.timeline[k].count
                 = Cardinality({i \in 1..Len(request.input) :
                       PublishedMonth(request.input[i]) = response.value.timeline[k].month})
        /\ Len(response.value.timeline) = TimelineMonths
        /\ SumOfCounts(response.value.timeline) <= Len(request.input)
        /\ response.value.summary.total = Len(request.input)

\* C23: a bucket's count is the number of records whose published month is
\* the bucket's key; a record whose month is outside the 12 buckets adds to
\* no bucket and makes no new one, but is counted in the facet totals and in
\* summary.total, so the timeline's counts sum to at most the number of
\* records.
C23_TimelineCountsAndOutsidersStillCounted ==
    IsAnalytics =>
        /\ TimelineCountsPublishedMonths
        /\ \A i \in 1..Len(request.input) :
               OutsideTimeline(request.input[i]) =>
                   /\ request.input[i].domain \in DOMAIN response.value.by_domain
                   /\ response.value.by_domain[request.input[i].domain]
                        = CountOf(request.input, "domain", request.input[i].domain)
                   /\ request.input[i].document_type \in DOMAIN response.value.by_type
                   /\ response.value.by_type[request.input[i].document_type]
                        = CountOf(request.input, "document_type", request.input[i].document_type)
                   /\ request.input[i].regulator \in DOMAIN response.value.by_regulator
                   /\ response.value.by_regulator[request.input[i].regulator]
                        = CountOf(request.input, "regulator", request.input[i].regulator)
\* positions of the high and critical records of the input
RiskyPositions ==
    {i \in 1..Len(request.input) :
        request.input[i].risk_level \in {Some("high"), Some("critical")}}

\* a < b in the lexical order of code units
LexLess(a, b) == LexLeq(a, b) /\ a # b

\* the place of the record at position i among the high and critical
\* records, latest published first, equal dates in input order
RiskRank(i) ==
    1 + Cardinality({j \in RiskyPositions :
            \/ LexLess(request.input[i].published_date, request.input[j].published_date)
            \/ j < i /\ request.input[j].published_date = request.input[i].published_date})

\* C24: high_risk_recent holds only high and critical records, min(10, number
\* of them) many, latest published first with equal dates in input order, and
\* no record left out was published later than a listed one.
C24_HighRiskRecentIsLatestTen ==
    IsAnalytics =>
        LET listed == response.value.high_risk_recent
        IN  /\ Len(listed) = Min(HighRiskCap, Cardinality(RiskyPositions))
            /\ \A k \in 1..Len(listed) :
                   listed[k].risk_level \in {Some("high"), Some("critical")}
            /\ \A k \in 1..(Len(listed) - 1) :
                   LexLeq(listed[k + 1].date, listed[k].date)
            /\ \A i \in RiskyPositions :
                   IF RiskRank(i) <= HighRiskCap
                   THEN listed[RiskRank(i)]
                          = [id |-> request.input[i].id, title |-> request.input[i].title,
                             domain |-> request.input[i].domain,
                             risk_level |-> request.input[i].risk_level,
                             date |-> request.input[i].published_date]
                   ELSE \A k \in 1..Len(listed) :
                            LexLeq(request.input[i].published_date, listed[k].date)

C24_Witness ==
    /\ IsAnalytics
    /\ Len(request.input) = HighRiskCap + 2
    /\ Cardinality(RiskyPositions) = HighRiskCap + 2
    /\ Len(response.value.high_risk_recent) = HighRiskCap
    /\ response.value.high_risk_recent[1].id = <<3>>
    /\ response.value.high_risk_recent[2].id = <<7>>
    /\ response.value.high_risk_recent[1].date = response.value.high_risk_recent[2].date
    /\ response.value.high_risk_recent[4].id = <<1>>
    /\ response.value.high_risk_recent[HighRiskCap].id = <<2>>
\* the days from 1970-01-01 to the dates the records carry
EpochDay(date) ==
    CASE date = D20231231 -> 19722
      [] date = D20240115 -> 19737
      [] date = D20240301 -> 19783

\* C25: for a record set that is not empty, summary.last_updated is the
\* latest last_updated of the records (as the time of that day); for the
\* empty set it is no value, never zero.
C25_LastUpdatedIsLatestOrNone ==
    IsAnalytics =>
        IF request.input = <<>>
        THEN response.value.summary.last_updated = None
        ELSE /\ response.value.summary.last_updated # Some(0)
             /\ \E i \in 1..Len(request.input) :
                    /\ response.value.summary.last_updated
                         = Some(EpochDay(request.input[i].last_updated))
                    /\ \A j \in 1..Len(request.input) :
                           LexLeq(request.input[j].last_updated,
                                  request.input[i].last_updated)

C25_Witness ==
    /\ IsAnalytics
    /\ Len(request.input) = 2
    /\ request.input[1].last_updated = D20240301
    /\ request.input[2].last_updated = D20240115
    /\ request.input[2].published_date = D20231231
    /\ response.value.summary.last_updated = Some(19783)
\* what C26 says of everything but the regulator counters
EmptySetAnswerApartFromRegulators ==
    (IsAnalytics /\ request.input = <<>>) =>
        /\ response.threw = FALSE
        /\ response.value.success = TRUE
        /\ response.value.summary.total = 0
        /\ DOMAIN response.value.by_domain = ComplianceDomains
        /\ \A d \in ComplianceDomains : response.value.by_domain[d] = 0
        /\ DOMAIN response.value.by_type = DocumentTypes
        /\ \A t \in DocumentTypes : response.value.by_type[t] = 0
        /\ Len(response.value.timeline) = TimelineMonths
        /\ \A k \in 1..Len(response.value.timeline) : response.value.timeline[k].count = 0
        /\ response.value.high_risk_recent = <<>>
        /\ response.value.summary.last_updated = None

\* C26: analytics over no records succeeds with total 0, every regulator,
\* domain and document-type counter at 0, a timeline of 12 entries all 0, an
\* empty high-risk list and no last_updated.
C26_EmptySetAnswersAllZero ==
    (IsAnalytics /\ request.input = <<>>) =>
        /\ EmptySetAnswerApartFromRegulators
        /\ DOMAIN response.value.by_regulator = Regulators
        /\ \A r \in Regulators : response.value.by_regulator[r] = 0
(***************************************************************************)
(* Properties of getAllPolicies.                                           *)
(***************************************************************************)
IsLoad == request.op = "load" /\ request.file # None

\* the text writes a decimal number: a sign or none, then digits with at
\* most one point among them
IsNumeral(text) ==
    LET body == IF text # <<>> /\ text[1] \in {"-", "+"}
                THEN SubSeq(text, 2, Len(text)) ELSE text
    IN  /\ \A k \in 1..Len(body) : body[k] \in DecimalDigits \cup {"."}
        /\ \E k \in 1..Len(body) : body[k] \in DecimalDigits
        /\ Cardinality({k \in 1..Len(body) : body[k] = "."}) <= 1

\* the numeric field is absent when its column is empty or writes no
\* number, and is never NaN
NumericFieldReadOrAbsent(text, field) ==
    /\ text = <<>> => field = None
    /\ ~IsNumeral(text) => field = None
    /\ field # None => Value(field).isNaN = FALSE

\* C27: a row whose fine_amount or cc_latest_income column holds text that
\* is no number is kept, and its record has that field absent, not NaN or
\* another non-numeric value; an empty column is absent as well.
C27_UnreadableNumberIsAbsent ==
    IsLoad =>
        /\ Len(policies) = Len(Value(request.file))
        /\ \A i \in 1..Len(policies) :
               /\ policies[i].id = Value(request.file)[i].id
               /\ NumericFieldReadOrAbsent(Value(request.file)[i].fine_amount,
                                           policies[i].fine_amount)
               /\ NumericFieldReadOrAbsent(Value(request.file)[i].cc_latest_income,
                                           policies[i].cc_latest_income)
(***************************************************************************)
(* Properties of requests that run concurrently.                           *)
(***************************************************************************)
\* C28: however filter, sort, paginate, sanctions, charity and analytics
\* requests over one loaded record sequence interleave, the sequence keeps
\* its contents and order, and a request returns what it returns when it
\* runs alone on the sequence as it was loaded.
C28_ConcurrentRequestsLeaveSequenceAndResults ==
    \A c \in DOMAIN request :
        request[c].op # "none" =>
            /\ policies = request[c].input
            /\ request[c].handled =>
                   response[c].value = RunCall(request[c].input, request[c].call).value

C28_Witness ==
    /\ DOMAIN request = Clients
    /\ request[1].op = "sort" /\ request[1].handled
    /\ request[2].op = "analytics" /\ request[2].handled
    /\ response[1].value # request[1].input
    /\ Len(response[2].value.high_risk_recent) = 2
    /\ response[2].value.high_risk_recent[1].date = D20240115
    /\ policies = request[2].input

====
